---- MODULE Spec2Model ----
(***************************************************************************)
(* Model of data_scraper/services/chunk_service.py, ChunkService.chunk_audio *)
(* and its nested save_chunk, with the policy constants of                 *)
(* data_scraper/config/settings.py, and of the stages of                   *)
(* data_scraper/processors/youtube_processor.py, YouTubeProcessor.run.     *)
(* Spec is chunk_audio called on its own; SpecRun is run() called for one  *)
(* recording, once or again.                                               *)
(*                                                                         *)
(* Time.  The source holds timestamps as float seconds.  Here a timestamp  *)
(* is an integer number of ticks, TicksPerMs ticks to the millisecond, so  *)
(* that int(seconds * 1000) of save_chunk is a real truncation.  A text is *)
(* a sequence of one-character strings.                                    *)
(***************************************************************************)
EXTENDS Integers, Sequences, FiniteSets, TLC

VARIABLES
    words,         \* json.load(f)["words"]: the transcript's word sequence
    audio_ms,      \* len(audio): the decoded waveform's length in ms
    pc,            \* position of chunk_audio: init, loop, write, done, raised
    idx,           \* number of words the for loop has consumed
    transcripts,   \* local list transcripts
    audios,        \* local dict audios: chunk id -> wav path
    current_text,  \* local list current_text (the accumulation buffer)
    chunk_start,   \* local chunk_start
    chunk_id,      \* local chunk_id
    dirs_made,     \* chunks_wav_dir and chunks_txt_dir exist
    wav_files,     \* chunk_<id>.wav files on disk: id -> ms range of the audio held
    txt_files,     \* chunk_<id>.txt files on disk: id -> text
    manifest,      \* chunks_mapping.json: <<>> when absent, <<content>> when written
    trace,         \* history: per emitted chunk, the rule that closed it, the
                   \* index of the closing word and the buffer length
    rpc,           \* position of YouTubeProcessor.run; "direct" when chunk_audio
                   \* is called on its own
    files,         \* which of original.m4a, original.wav, output_wav.json exist
    runs,          \* number of calls of run() for the recording so far
    first,         \* history: <<>> or <<the waveform length and the result of an
                   \* earlier chunk_audio call on the same words>>
    rows,          \* main.py: the url column of data.csv
    row_idx,       \* main.py: number of rows of df the for loop has handled
    successful,    \* main.py: the counter successful
    failed,        \* main.py: the counter failed
    attempted      \* history: the urls a processor was constructed for, in order

vars == <<words, audio_ms, pc, idx, transcripts, audios, current_text, chunk_start,
          chunk_id, dirs_made, wav_files, txt_files, manifest, trace,
          rpc, files, runs, first, rows, row_idx, successful, failed, attempted>>

batchVars == <<rows, row_idx, successful, failed, attempted>>

----------------------------------------------------------------------------
(* Policy constants and units *)

MsPerSecond == 1000
TicksPerMs == 2
Second == MsPerSecond * TicksPerMs

MIN_LEN == 4 * Second
MAX_LEN == 17 * Second
PUNCT == {".", "?", "!"}

----------------------------------------------------------------------------
(* Bounded inputs *)

MaxWords == 3

\* 0 s, 2.0005 s, 4 s, 17 s, 22 s
Times == {0, 2 * Second + 1, 4 * Second, 17 * Second, 22 * Second}

Texts == { <<" ", "a">>, <<"b", ".", " ">> }

\* The one malformed span (end < start) of the input grid: 22 s to 17 s.
MalformedSpans == {<<22 * Second, 17 * Second>>}

WordSet ==
    {w \in [text : Texts, start : Times, end : Times] :
        w.start <= w.end \/ <<w.start, w.end>> \in MalformedSpans}


\* The Word invariants of the transcript: start <= end, ordered by start.
WordsValid(ws) ==
    /\ \A i \in 1..Len(ws) : ws[i].start <= ws[i].end
    /\ \A i \in 1..Len(ws) : \A j \in i..Len(ws) : ws[i].start <= ws[j].start

\* The transcript lists its words in order of their start.
OrderedByStart(ws) ==
    \A i \in 1..Len(ws) : \A j \in i..Len(ws) : ws[i].start <= ws[j].start

IOOutcomes == {"ok", "wav_fail", "txt_fail"}

\* Waveform lengths in ms: 20 s (shorter than the last timestamp) and 22 s.
AudioLens == {20 * MsPerSecond, 22 * MsPerSecond}

----------------------------------------------------------------------------
(* Text functions *)

IsSpace(c) == c = " "

RECURSIVE LStrip(_)
LStrip(s) ==
    IF s = <<>> THEN s
    ELSE IF IsSpace(Head(s)) THEN LStrip(Tail(s)) ELSE s

RECURSIVE RStrip(_)
RStrip(s) ==
    IF s = <<>> THEN s
    ELSE IF IsSpace(s[Len(s)]) THEN RStrip(SubSeq(s, 1, Len(s) - 1)) ELSE s

\* str.strip()
Strip(s) == RStrip(LStrip(s))

RECURSIVE JoinSpaced(_)
JoinSpaced(texts) ==
    IF texts = <<>> THEN <<>>
    ELSE IF Tail(texts) = <<>> THEN Head(texts)
    ELSE Head(texts) \o <<" ">> \o JoinSpaced(Tail(texts))

\* "".join(list)
RECURSIVE Join(_)
Join(texts) ==
    IF texts = <<>> THEN <<>> ELSE Head(texts) \o Join(Tail(texts))

\* str.endswith(Config.PUNCT)
EndsWithPunct(s) == s # <<>> /\ s[Len(s)] \in PUNCT

\* int(seconds * 1000) of a non-negative timestamp
ToMs(t) == t \div TicksPerMs

Min(a, b) == IF a <= b THEN a ELSE b

\* audio[from_ms : to_ms] of a waveform of len_ms milliseconds: AudioSegment
\* slicing limits both offsets to the waveform's length.
SliceUnclamped(len_ms, from_ms, to_ms) == [from |-> from_ms, to |-> to_ms]
SliceAfterStart(len_ms, from_ms, to_ms) ==
    [from |-> Min(from_ms + 1, len_ms), to |-> Min(to_ms, len_ms)]
Slice(len_ms, from_ms, to_ms) ==
    [from |-> Min(from_ms, len_ms), to |-> Min(to_ms, len_ms)]

\* len(audio) of a stored slice, in ms: a slice whose end offset lies before
\* its start offset is empty.
SliceLen(f) == IF f.to >= f.from THEN f.to - f.from ELSE 0

----------------------------------------------------------------------------
(* The closing decision of the for loop *)

DurationFromWordStart(w, cs) == w.start - cs
DurationWithinAudio(w, cs) == Min(w.end, audio_ms * TicksPerMs) - cs
Duration(w, cs) == w.end - cs

HasPunct(w) == EndsWithPunct(Strip(w.text))

PunctCloseNoFloor(d, hp) == d <= MAX_LEN /\ hp
PunctCloseNoCeiling(d, hp) == MIN_LEN <= d /\ hp
PunctClose(d, hp) == MIN_LEN <= d /\ d <= MAX_LEN /\ hp

OverflowCloseInclusive(d) == d >= MAX_LEN
OverflowCloseLate(d) == d > MAX_LEN + MIN_LEN
OverflowClose(d) == d > MAX_LEN

----------------------------------------------------------------------------
(* save_chunk *)

ChunkTextDropFirst(buf) == Strip(Join(Tail(buf)))
ChunkText(buf) == Strip(Join(buf))

NextChunkIdSame(id) == id
NextChunkId(id) == id + 1

NextChunkStartStale(end_time) == chunk_start
NextChunkStart(end_time) == end_time

BufferAfterSaveKept(buf) == buf
BufferAfterSave(buf) == <<>>

WavPath(id) == <<"chunks_wav", id>>

AppendedOverLast(ts, rec) ==
    IF ts = <<>> THEN <<rec>> ELSE [ts EXCEPT ![Len(ts)] = rec]
\* transcripts.append({...})
Appended(ts, rec) == Append(ts, rec)

\* Where chunk_audio stands after a call of save_chunk: an exception of
\* seg.export, open or write is caught nowhere and leaves chunk_audio.
PcAfterSaveSwallowed(io, next) == next
PcAfterSave(io, next) == IF io = "ok" THEN next ELSE "raised"

\* save_chunk(end_time) called with the buffer buf; io is the outcome of the
\* two file writes.  The record is appended before any write is attempted;
\* a failed write raises and leaves the remaining assignments undone.
SaveChunk(buf, end_time, rule, io) ==
    IF buf = <<>>
    THEN /\ current_text' = buf
         /\ UNCHANGED <<transcripts, audios, chunk_start, chunk_id,
                        wav_files, txt_files, trace>>
    ELSE LET text == ChunkText(buf) IN
         /\ transcripts' = Appended(transcripts,
                [id |-> chunk_id, start |-> chunk_start,
                 end |-> end_time, text |-> text])
         /\ trace' = Append(trace, [rule |-> rule, at |-> IF rule = "flush" THEN idx ELSE idx + 1,
                                    n |-> Len(buf)])
         /\ wav_files' =
                IF io = "wav_fail" THEN wav_files
                ELSE [i \in DOMAIN wav_files \cup {chunk_id} |->
                        IF i = chunk_id
                        THEN Slice(audio_ms, ToMs(chunk_start), ToMs(end_time))
                        ELSE wav_files[i]]
         /\ txt_files' =
                IF io # "ok" THEN txt_files
                ELSE [i \in DOMAIN txt_files \cup {chunk_id} |->
                        IF i = chunk_id THEN text ELSE txt_files[i]]
         /\ IF io = "ok"
            THEN /\ audios' = [i \in DOMAIN audios \cup {chunk_id} |->
                                 IF i = chunk_id THEN WavPath(chunk_id) ELSE audios[i]]
                 /\ chunk_id' = NextChunkId(chunk_id)
                 /\ chunk_start' = NextChunkStart(end_time)
                 /\ current_text' = BufferAfterSave(buf)
            ELSE /\ current_text' = buf
                 /\ UNCHANGED <<audios, chunk_id, chunk_start>>

----------------------------------------------------------------------------
(* chunk_audio *)

Init ==
    /\ \E n \in 0..MaxWords : words \in [1..n -> WordSet]
    /\ OrderedByStart(words)
    /\ audio_ms \in AudioLens
    /\ pc = "init"
    /\ idx = 0
    /\ transcripts = <<>>
    /\ audios = <<>>
    /\ current_text = <<>>
    /\ chunk_start = 0
    /\ chunk_id = 0
    /\ dirs_made = FALSE
    /\ wav_files = <<>>
    /\ txt_files = <<>>
    /\ manifest = <<>>
    /\ trace = <<>>
    /\ rpc = "direct"
    /\ files = {"original.m4a", "original.wav", "output_wav.json"}
    /\ runs = 0
    /\ first = <<>>
    /\ rows = <<>>
    /\ row_idx = 0
    /\ successful = 0
    /\ failed = 0
    /\ attempted = <<>>

BeginNoIndexError ==
    /\ pc = "init"
    /\ dirs_made' = TRUE
    /\ pc' = "loop"
    /\ chunk_start' = IF words = <<>> THEN 0 ELSE words[1].start
    /\ chunk_id' = 1
    /\ UNCHANGED <<words, audio_ms, rpc, files, runs, first, batchVars, idx, transcripts, audios, current_text,
                   wav_files, txt_files, manifest, trace>>

\* Lines 11-23: make the directories, load the words, initialise the locals.
\* words[0] raises IndexError on an empty word list.
Begin ==
    /\ pc = "init"
    /\ dirs_made' = TRUE
    /\ IF words = <<>>
       THEN /\ pc' = "raised"
            /\ UNCHANGED <<chunk_start, chunk_id>>
       ELSE /\ pc' = "loop"
            /\ chunk_start' = words[1].start
            /\ chunk_id' = 1
    /\ UNCHANGED <<words, audio_ms, rpc, files, runs, first, batchVars, idx, transcripts, audios, current_text,
                   wav_files, txt_files, manifest, trace>>

\* Lines 54-62: one iteration of the for loop.
ProcessWord ==
    /\ pc = "loop"
    /\ idx < Len(words)
    /\ LET w == words[idx + 1]
           buf == Append(current_text, w.text)
           duration == Duration(w, chunk_start)
           has_punct == HasPunct(w)
       IN  IF PunctClose(duration, has_punct)
           THEN \E io \in IOOutcomes :
                   /\ SaveChunk(buf, w.end, "punct", io)
                   /\ pc' = PcAfterSave(io, "loop")
           ELSE IF OverflowClose(duration)
           THEN \E io \in IOOutcomes :
                   /\ SaveChunk(buf, w.end, "overflow", io)
                   /\ pc' = PcAfterSave(io, "loop")
           ELSE /\ current_text' = buf
                /\ pc' = "loop"
                /\ UNCHANGED <<transcripts, audios, chunk_start, chunk_id,
                               wav_files, txt_files, trace>>
    /\ idx' = idx + 1
    /\ UNCHANGED <<words, audio_ms, rpc, files, runs, first, batchVars, dirs_made, manifest>>

FlushNeededNever(buf) == FALSE
FlushNeeded(buf) == buf # <<>>

FlushEndFirstWord == words[1].end
FlushEnd == words[Len(words)].end

\* Lines 64-65: the end-of-input flush.
Flush ==
    /\ pc = "loop"
    /\ idx = Len(words)
    /\ FlushNeeded(current_text)
    /\ \E io \in IOOutcomes :
          /\ SaveChunk(current_text, FlushEnd, "flush", io)
          /\ pc' = PcAfterSave(io, "write")
    /\ UNCHANGED <<words, audio_ms, rpc, files, runs, first, batchVars, idx, dirs_made, manifest>>

\* Line 64 when the buffer is empty: nothing to flush.
NoFlush ==
    /\ pc = "loop"
    /\ idx = Len(words)
    /\ ~FlushNeeded(current_text)
    /\ pc' = "write"
    /\ UNCHANGED <<words, audio_ms, rpc, files, runs, first, batchVars, idx, transcripts, audios, current_text, chunk_start,
                   chunk_id, dirs_made, wav_files, txt_files, manifest, trace>>

\* Lines 67-71: write chunks_mapping.json and return.
WriteManifest ==
    /\ pc = "write"
    /\ \E ok \in BOOLEAN :
          IF ok
          THEN /\ manifest' = <<[transcript |-> transcripts, audio |-> audios]>>
               /\ pc' = "done"
          ELSE /\ pc' = "raised"
               /\ UNCHANGED manifest
    /\ UNCHANGED <<words, audio_ms, rpc, files, runs, first, batchVars, idx, transcripts, audios, current_text, chunk_start,
                   chunk_id, dirs_made, wav_files, txt_files, trace>>

Next ==
    \/ Begin
    \/ ProcessWord
    \/ Flush
    \/ NoFlush
    \/ WriteManifest

Spec == Init /\ [][Next]_vars

----------------------------------------------------------------------------
(* YouTubeProcessor.run: the four stages around chunk_audio *)

MaxRuns == 2

\* The words the transcription stage stores in output_wav.json.
RunWordSet == {w \in WordSet : w.start = 0 /\ w.text = <<"b", ".", " ">>}

\* A fresh recording folder: nothing downloaded, nothing chunked.
InitRun ==
    /\ \E n \in 0..MaxWords : words \in [1..n -> RunWordSet]
    /\ audio_ms \in AudioLens
    /\ pc = "none"
    /\ idx = 0
    /\ transcripts = <<>>
    /\ audios = <<>>
    /\ current_text = <<>>
    /\ chunk_start = 0
    /\ chunk_id = 0
    /\ dirs_made = FALSE
    /\ wav_files = <<>>
    /\ txt_files = <<>>
    /\ manifest = <<>>
    /\ trace = <<>>
    /\ rpc = "idle"
    /\ files = {}
    /\ runs = 0
    /\ first = <<>>
    /\ rows = <<>>
    /\ row_idx = 0
    /\ successful = 0
    /\ failed = 0
    /\ attempted = <<>>

chunkVars == <<pc, idx, transcripts, audios, current_text, chunk_start,
               chunk_id, dirs_made, wav_files, txt_files, manifest, trace>>

\* main.py calls run() for the recording, again after a run has ended.
StartRun ==
    /\ rpc \in {"idle", "finished", "failed"}
    /\ runs < MaxRuns
    /\ runs' = runs + 1
    /\ rpc' = "download"
    /\ UNCHANGED <<words, audio_ms, files, first, batchVars>>
    /\ UNCHANGED chunkVars

\* A stage that makes the file out unless it exists, then goes on to next;
\* the collaborator it calls may raise, which leaves run().
Stage(out, next) ==
    /\ IF out \in files
       THEN rpc' = next /\ UNCHANGED files
       ELSE \E ok \in BOOLEAN :
               IF ok THEN rpc' = next /\ files' = files \cup {out}
                     ELSE rpc' = "failed" /\ UNCHANGED files
    /\ UNCHANGED <<words, audio_ms, runs, first, batchVars>>
    /\ UNCHANGED chunkVars

\* Lines 36-41.
Download ==
    /\ rpc = "download"
    /\ Stage("original.m4a", "convert")

\* Lines 43-56.
Convert ==
    /\ rpc = "convert"
    /\ Stage("original.wav", "transcribe")

\* Lines 58-66.
Transcribe ==
    /\ rpc = "transcribe"
    /\ Stage("output_wav.json", "chunk")

ChunkingDoneNever == FALSE
\* Line 70: the test that decides whether chunk_audio is called.
ChunkingDone == dirs_made

\* Lines 69-80: call chunk_audio unless the chunks_wav directory exists.
ChunkStage ==
    /\ rpc = "chunk"
    /\ IF ChunkingDone
       THEN /\ rpc' = "finished"
            /\ UNCHANGED chunkVars
       ELSE /\ rpc' = "chunking"
            /\ pc' = "init"
            /\ idx' = 0
            /\ transcripts' = <<>>
            /\ audios' = <<>>
            /\ current_text' = <<>>
            /\ trace' = <<>>
            /\ UNCHANGED <<chunk_start, chunk_id, dirs_made, wav_files,
                           txt_files, manifest>>
    /\ UNCHANGED <<words, audio_ms, files, runs, first, batchVars>>

\* Lines 78-83: chunk_audio returned; run() prints and returns.
ChunkReturn ==
    /\ rpc = "chunking"
    /\ pc = "done"
    /\ rpc' = "finished"
    /\ UNCHANGED <<words, audio_ms, files, runs, first, batchVars>>
    /\ UNCHANGED chunkVars

\* Line 72: chunk_audio raised; the exception leaves run().
ChunkRaise ==
    /\ rpc = "chunking"
    /\ pc = "raised"
    /\ rpc' = "failed"
    /\ UNCHANGED <<words, audio_ms, files, runs, first, batchVars>>
    /\ UNCHANGED chunkVars

NextRun ==
    \/ StartRun
    \/ Download
    \/ Convert
    \/ Transcribe
    \/ ChunkStage
    \/ Begin
    \/ ProcessWord
    \/ Flush
    \/ NoFlush
    \/ WriteManifest
    \/ ChunkReturn
    \/ ChunkRaise

SpecRun == InitRun /\ [][NextRun]_vars

----------------------------------------------------------------------------
(* chunk_audio called twice on one transcript, with two waveforms *)

\* The words of the documented scenario, "I" and "am.", on the spans
\* 0 s - 1 s, 1 s - 4.5 s and 4.5 s - 22 s.
ScenarioTexts == { <<"I">>, <<"a", "m", ".">> }

ScenarioSpans ==
    { <<0, Second>>, <<Second, (9 * Second) \div 2>>,
      <<(9 * Second) \div 2, 22 * Second>> }

ScenarioWordSet ==
    {[text |-> t, start |-> sp[1], end |-> sp[2]] :
        t \in ScenarioTexts, sp \in ScenarioSpans}

InitTwice ==
    /\ \E n \in 0..MaxWords : words \in [1..n -> ScenarioWordSet]
    /\ OrderedByStart(words)
    /\ audio_ms \in AudioLens
    /\ pc = "init"
    /\ idx = 0
    /\ transcripts = <<>>
    /\ audios = <<>>
    /\ current_text = <<>>
    /\ chunk_start = 0
    /\ chunk_id = 0
    /\ dirs_made = FALSE
    /\ wav_files = <<>>
    /\ txt_files = <<>>
    /\ manifest = <<>>
    /\ trace = <<>>
    /\ rpc = "direct"
    /\ files = {"original.m4a", "original.wav", "output_wav.json"}
    /\ runs = 0
    /\ first = <<>>
    /\ rows = <<>>
    /\ row_idx = 0
    /\ successful = 0
    /\ failed = 0
    /\ attempted = <<>>

\* chunk_audio is called again with the same transcript and another
\* waveform: the locals start afresh, the files of the first call stay
\* until they are overwritten.
SecondCall ==
    /\ pc = "done"
    /\ first = <<>>
    /\ first' = <<[audio_ms |-> audio_ms,
                   transcript |-> manifest[1].transcript,
                   audio |-> manifest[1].audio]>>
    /\ audio_ms' \in AudioLens
    /\ pc' = "init"
    /\ idx' = 0
    /\ transcripts' = <<>>
    /\ audios' = <<>>
    /\ current_text' = <<>>
    /\ trace' = <<>>
    /\ UNCHANGED <<words, rpc, files, runs, batchVars, chunk_start, chunk_id,
                   dirs_made, wav_files, txt_files, manifest>>

NextTwice ==
    \/ Begin
    \/ ProcessWord
    \/ Flush
    \/ NoFlush
    \/ WriteManifest
    \/ SecondCall

SpecTwice == InitTwice /\ [][NextTwice]_vars

----------------------------------------------------------------------------
(* main.py: the batch loop over data.csv *)

MaxRows == 3

Urls == {"v=a", "v=b", "v=c"}

\* DataFrame.drop_duplicates(subset=["url"]): the first row of every url is
\* kept, in the order of the file.
RECURSIVE drop_duplicates(_)
drop_duplicates(rs) ==
    IF rs = <<>> THEN <<>>
    ELSE LET kept == drop_duplicates(SubSeq(rs, 1, Len(rs) - 1))
             last == rs[Len(rs)]
         IN  IF \E i \in 1..Len(kept) : kept[i] = last
             THEN kept
             ELSE Append(kept, last)

\* Lines 6-7.
df == drop_duplicates(rows)

\* What the try block of one row does: both calls return, the constructor
\* raises, or run() raises.
TryOutcomes == {"ok", "init_raises", "run_raises"}

InitBatch ==
    /\ \E n \in 0..MaxRows : rows \in [1..n -> Urls]
    /\ row_idx = 0
    /\ successful = 0
    /\ failed = 0
    /\ attempted = <<>>
    /\ words = <<>>
    /\ audio_ms = 0
    /\ pc = "none"
    /\ idx = 0
    /\ transcripts = <<>>
    /\ audios = <<>>
    /\ current_text = <<>>
    /\ chunk_start = 0
    /\ chunk_id = 0
    /\ dirs_made = FALSE
    /\ wav_files = <<>>
    /\ txt_files = <<>>
    /\ manifest = <<>>
    /\ trace = <<>>
    /\ rpc = "idle"
    /\ files = {}
    /\ runs = 0
    /\ first = <<>>

AfterExceptLeavesLoop(i) == Len(df)
\* Lines 40-43: the except clause ends with continue.
AfterExcept(i) == i + 1

\* Lines 15-43: one iteration of the for loop.
ProcessRow ==
    /\ row_idx < Len(df)
    /\ attempted' = Append(attempted, df[row_idx + 1])
    /\ \E outcome \in TryOutcomes :
          IF outcome = "ok"
          THEN /\ successful' = successful + 1
               /\ row_idx' = row_idx + 1
               /\ UNCHANGED failed
          ELSE /\ failed' = failed + 1
               /\ row_idx' = AfterExcept(row_idx)
               /\ UNCHANGED successful
    /\ UNCHANGED <<rows, words, audio_ms, rpc, files, runs, first>>
    /\ UNCHANGED chunkVars

NextBatch == ProcessRow

SpecBatch == InitBatch /\ [][NextBatch]_vars

----------------------------------------------------------------------------
(* Helpers of the properties *)

Returned == pc \in {"write", "done"}

ChunkDur(n) == transcripts[n].end - transcripts[n].start

\* The words of chunk n, as recorded when it was emitted.
RunFirst(n) == trace[n].at - trace[n].n + 1
RunLast(n) == trace[n].at
RunTexts(n) == [k \in 1..trace[n].n |-> words[RunFirst(n) + k - 1].text]

\* No word ends before an earlier word ends.
EndsMonotone(ws) ==
    \A i \in 1..Len(ws) : \A j \in i..Len(ws) : ws[i].end <= ws[j].end

\* The elementary intervals between neighbouring timestamps of the grid.
Cells ==
    {c \in Times \X Times :
        c[1] < c[2] /\ ~ \E t \in Times : c[1] < t /\ t < c[2]}

\* The chunks holding the cell c inside their range [start, end).
Holders(c) ==
    {n \in 1..Len(transcripts) :
        transcripts[n].start <= c[1] /\ c[2] <= transcripts[n].end}

\* The ranges [start, end) of the chunks tile [lo, hi]: every range is well
\* formed, every cell inside [lo, hi] lies in exactly one range and every
\* cell outside lies in none.
Tiles(lo, hi) ==
    /\ \A n \in 1..Len(transcripts) : transcripts[n].start <= transcripts[n].end
    /\ \A c \in Cells :
          Cardinality(Holders(c)) = IF lo <= c[1] /\ c[2] <= hi THEN 1 ELSE 0

----------------------------------------------------------------------------
(* C1..C10 *)

\* C1: the emitted chunks form a chain: chunk 1 starts at words[0].start,
\* every later chunk starts where the one before it ends, and once the loop
\* and the flush are over the last chunk ends at the last word's end.
C1_Chain ==
    /\ transcripts # <<>> => transcripts[1].start = words[1].start
    /\ \A n \in 2..Len(transcripts) :
          transcripts[n].start = transcripts[n - 1].end
    /\ Returned =>
          /\ transcripts # <<>>
          /\ transcripts[Len(transcripts)].end = words[Len(words)].end

C1_Witness ==
    /\ pc = "done"
    /\ Len(transcripts) = 3
    /\ transcripts[1].end < transcripts[2].end

\* C2 (as stated): for words with start <= end that are ordered by start, the
\* chunk ranges tile [words[0].start, words[-1].end].
C2_TilesOrderedByStart ==
    (Returned /\ WordsValid(words)) =>
        Tiles(words[1].start, words[Len(words)].end)

\* C2 (amended): the chunk ranges tile [words[0].start, words[-1].end] when,
\* besides the Word invariants, the words are ordered non-decreasing by end.
C2_TilesOrderedByEnd ==
    (Returned /\ WordsValid(words) /\ EndsMonotone(words)) =>
        Tiles(words[1].start, words[Len(words)].end)

C2_Witness ==
    /\ pc = "done"
    /\ WordsValid(words) /\ EndsMonotone(words)
    /\ Len(transcripts) >= 2
    /\ \A n \in 1..Len(transcripts) : transcripts[n].start < transcripts[n].end

\* C3: the chunks partition the words into consecutive non-empty runs in
\* input order: while the loop runs, the emitted runs followed by the buffer
\* are exactly the words consumed so far; after the flush the runs are
\* exactly the whole word sequence.
C3_Partition ==
    pc # "raised" =>
        /\ Len(trace) = Len(transcripts)
        /\ \A n \in 1..Len(trace) :
              /\ trace[n].n >= 1
              /\ RunFirst(n) = IF n = 1 THEN 1 ELSE RunLast(n - 1) + 1
        /\ (IF trace = <<>> THEN 0 ELSE RunLast(Len(trace))) + Len(current_text) = idx
        /\ Returned => (current_text = <<>> /\ idx = Len(words))

C3_Witness ==
    /\ pc = "done"
    /\ Len(words) = 3
    /\ Len(trace) = 2
    /\ trace[1].n = 2

\* C4: every chunk's text is the concatenation of the texts of its words,
\* with leading and trailing whitespace removed, so the chunk texts in id
\* order spell the word texts in input order up to that trimming.
C4_TextComplete ==
    pc # "raised" =>
        /\ \A n \in 1..Len(transcripts) :
              transcripts[n].text = Strip(Join(RunTexts(n)))
        /\ Returned =>
              Join([n \in 1..Len(transcripts) |-> transcripts[n].text])
                = Join([n \in 1..Len(trace) |-> Strip(Join(RunTexts(n)))])

C4_Witness ==
    /\ pc = "done"
    /\ Len(transcripts) = 2
    /\ trace[1].n = 2
    /\ transcripts[1].text # Join(RunTexts(1))

\* C5: chunk ids are 1, 2, ..., N in emission order and the manifest lists
\* the chunks in ascending id order.
C5_Ids ==
    /\ \A n \in 1..Len(transcripts) : transcripts[n].id = n
    /\ manifest # <<>> =>
          /\ manifest[1].transcript = transcripts
          /\ \A n \in 1..Len(manifest[1].transcript) :
                manifest[1].transcript[n].id = n

C5_Witness ==
    /\ pc = "done"
    /\ manifest # <<>>
    /\ Len(manifest[1].transcript) = 3

\* C6: a non-empty word sequence yields at least one chunk and at most
\* len(words) chunks.
C6_Count ==
    /\ Len(transcripts) <= Len(words)
    /\ (Returned /\ words # <<>>) => Len(transcripts) >= 1

C6_Witness ==
    /\ pc = "done"
    /\ Len(words) = 3
    /\ Len(transcripts) \in {1, 3}

\* C7: a chunk that is not the last one (any chunk closed inside the loop)
\* lasts at least min_len, unless the forced-overflow rule closed it, and
\* then it lasts longer than max_len.
C7_Floor ==
    \A n \in 1..Len(transcripts) :
        (n < Len(transcripts) \/ trace[n].rule # "flush") =>
            IF trace[n].rule = "overflow"
            THEN ChunkDur(n) > MAX_LEN
            ELSE trace[n].rule = "punct" /\ ChunkDur(n) >= MIN_LEN

C7_Witness ==
    /\ pc = "done"
    /\ Len(transcripts) = 3
    /\ trace[1].rule = "punct"
    /\ trace[2].rule = "overflow"

\* The word that closed chunk n and the excess of chunk n over max_len.
Closer(n) == words[trace[n].at]
Excess(n) == ChunkDur(n) - MAX_LEN

\* The closing word of chunk n is the first word or starts no later than the
\* end of the word before it.
NoGapBefore(n) ==
    trace[n].at = 1 \/ Closer(n).start <= words[trace[n].at - 1].end

\* C8 (as stated): a chunk closed by the forced-overflow rule at word w
\* exceeds max_len by at most w.end - w.start, silent gaps included.
C8_SpillWithinWord ==
    \A n \in 1..Len(transcripts) :
        (WordsValid(words) /\ trace[n].rule = "overflow") =>
            Excess(n) <= Closer(n).end - Closer(n).start

\* C8 (amended): the bound holds when no silent gap precedes w, that is when
\* w is the first word or starts no later than the preceding word's end.
C8_SpillWithinWordNoGap ==
    \A n \in 1..Len(transcripts) :
        (WordsValid(words) /\ trace[n].rule = "overflow" /\ NoGapBefore(n)) =>
            Excess(n) <= Closer(n).end - Closer(n).start

C8_Witness ==
    /\ pc = "done"
    /\ WordsValid(words)
    /\ \E n \in 1..Len(transcripts) :
          /\ trace[n].rule = "overflow"
          /\ trace[n].n = 2
          /\ NoGapBefore(n)
          /\ Excess(n) > 0

\* C9: a word that ends in terminal punctuation while the in-progress
\* duration is below min_len closes nothing: the step emits no chunk, keeps
\* chunk_start and leaves the word in the buffer; and every chunk closed on
\* punctuation lasts at least min_len.
C9_Step ==
    (/\ pc = "loop" /\ idx < Len(words)
     /\ HasPunct(words[idx + 1])
     /\ Duration(words[idx + 1], chunk_start) < MIN_LEN)
    => /\ transcripts' = transcripts
       /\ chunk_start' = chunk_start
       /\ current_text' = Append(current_text, words[idx + 1].text)
       /\ pc' = "loop"

C9_NoEarlyPunctClose ==
    /\ [][C9_Step]_vars
    /\ [](\A n \in 1..Len(trace) :
             trace[n].rule = "punct" => ChunkDur(n) >= MIN_LEN)

C9_Witness ==
    /\ pc = "loop"
    /\ idx >= 1
    /\ HasPunct(words[idx])
    /\ Duration(words[idx], chunk_start) < MIN_LEN
    /\ Duration(words[idx], chunk_start) > 0
    /\ current_text # <<>>
    /\ current_text[Len(current_text)] = words[idx].text

\* C10: when the loop ends with a non-empty buffer, the flush emits exactly
\* one more chunk, [chunk_start, words[-1].end] with the buffered text,
\* whatever its duration and punctuation; a single word that is shorter than
\* min_len and unpunctuated yields exactly one chunk covering that word.
C10_Step ==
    (pc = "loop" /\ idx = Len(words) /\ current_text # <<>>)
    => /\ Len(transcripts') = Len(transcripts) + 1
       /\ SubSeq(transcripts', 1, Len(transcripts)) = transcripts
       /\ transcripts'[Len(transcripts')] =
             [id |-> chunk_id, start |-> chunk_start,
              end |-> words[Len(words)].end,
              text |-> Strip(Join(current_text))]

C10_Flush ==
    /\ [][C10_Step]_vars
    /\ []((/\ Returned /\ Len(words) = 1
           /\ ~HasPunct(words[1])
           /\ words[1].end - words[1].start < MIN_LEN)
          => /\ Len(transcripts) = 1
             /\ transcripts[1].start = words[1].start
             /\ transcripts[1].end = words[1].end
             /\ transcripts[1].text = Strip(words[1].text))

C10_Witness ==
    /\ pc = "done"
    /\ Len(words) = 1
    /\ ~HasPunct(words[1])
    /\ words[1].end - words[1].start < MIN_LEN
    /\ words[1].end - words[1].start > 0
    /\ trace[1].rule = "flush"

----------------------------------------------------------------------------
(* C11..C20 *)

WordSpan(i) == words[i].end - words[i].start

C12_ManifestLast ==
    /\ pc = "raised" => manifest = <<>>
    /\ manifest # <<>> =>
          /\ pc = "done"
          /\ idx = Len(words)
          /\ current_text = <<>>
          /\ manifest[1].transcript = transcripts
          /\ \A n \in 1..Len(transcripts) :
                /\ transcripts[n].id \in DOMAIN wav_files
                /\ transcripts[n].id \in DOMAIN txt_files

C12_Witness ==
    /\ pc = "raised"
    /\ Len(transcripts) = 2
    /\ 1 \in DOMAIN wav_files
    /\ 2 \notin DOMAIN txt_files
    /\ manifest = <<>>

\* C14: an empty word sequence makes chunk_audio fail: it raises at
\* words[0], before any chunk is emitted and before any chunk file or the
\* manifest is written.
C14_EmptyFails ==
    words = <<>> =>
        /\ pc \in {"init", "raised"}
        /\ transcripts = <<>>
        /\ wav_files = <<>>
        /\ txt_files = <<>>
        /\ manifest = <<>>

C14_Witness ==
    /\ words = <<>>
    /\ pc = "raised"
    /\ dirs_made

Malformed(ws) == \E i \in 1..Len(ws) : ws[i].end < ws[i].start

\* C15: a word sequence with a word whose end is before its start is
\* rejected: no chunk is produced and no manifest is written.
C15_MalformedRejected ==
    Malformed(words) => (transcripts = <<>> /\ manifest = <<>>)

\* A step in which save_chunk recorded a chunk and a write of its audio or
\* text file failed.
ChunkWriteFailed ==
    /\ Len(transcripts') = Len(transcripts) + 1
    /\ chunk_id \notin DOMAIN txt_files'

\* C16: a failed write of one chunk's audio or text file does not stop the
\* run: chunk_audio goes on with the remaining words and the manifest.
C16_WriteFailureSkipsChunk ==
    [][ChunkWriteFailed => pc' \in {"loop", "write"}]_vars

\* Chunk n's computed range reaches beyond the end of the waveform.
BeyondWaveform(n) ==
    \/ ToMs(transcripts[n].end) > audio_ms
    \/ ToMs(transcripts[n].start) > audio_ms

\* C17: when a chunk's end offset lies beyond the waveform, the audio range
\* written is cut at the waveform's length, save_chunk completes (the run
\* continues past the chunk) and the chunk has its manifest entry.
C17_Clamped ==
    /\ \A n \in DOMAIN wav_files :
          /\ wav_files[n].from <= audio_ms
          /\ wav_files[n].to <= audio_ms
    /\ \A n \in 1..Len(transcripts) :
          (ToMs(transcripts[n].end) > audio_ms /\ n \in DOMAIN txt_files) =>
              /\ wav_files[n].to = audio_ms
              /\ wav_files[n].from = Min(ToMs(transcripts[n].start), audio_ms)
              /\ n \in DOMAIN audios
              /\ pc = "done" =>
                    /\ manifest[1].transcript[n] = transcripts[n]
                    /\ n \in DOMAIN manifest[1].audio

C17_Witness ==
    /\ pc = "done"
    /\ Len(transcripts) = 2
    /\ ToMs(transcripts[2].end) > audio_ms
    /\ ToMs(transcripts[2].start) < audio_ms
    /\ wav_files[2].to = audio_ms

\* The record of chunk n carries a marker besides id, start, end and text.
Flagged(n) ==
    \E f \in DOMAIN transcripts[n] : f \notin {"id", "start", "end", "text"}

\* C18: a chunk whose computed range falls outside the waveform is flagged.
C18_DriftFlagged ==
    \A n \in 1..Len(transcripts) : BeyondWaveform(n) => Flagged(n)

\* C19: after a successful run the ids with a wav file, the ids with a text
\* file, the keys of the manifest's audio mapping and the ids of the
\* manifest's transcript list are one set, one id per chunk, and each text
\* file holds the trimmed concatenated text of its chunk's words.
C19_FilesMatchManifest ==
    pc = "done" =>
        LET ids == {manifest[1].transcript[n].id :
                        n \in 1..Len(manifest[1].transcript)}
        IN  /\ DOMAIN wav_files = ids
            /\ DOMAIN txt_files = ids
            /\ DOMAIN manifest[1].audio = ids
            /\ Cardinality(ids) = Len(trace)
            /\ \A n \in 1..Len(trace) :
                  /\ n \in DOMAIN txt_files
                  /\ txt_files[n] = Strip(Join(RunTexts(n)))

C19_Witness ==
    /\ pc = "done"
    /\ DOMAIN wav_files = {1, 2}
    /\ DOMAIN txt_files = {1, 2}
    /\ txt_files[1] # txt_files[2]

\* The chunk list as a fold over the words: the closing rule applied word by
\* word, then the flush.
RECURSIVE PlanFrom(_, _, _, _, _)
PlanFrom(ws, i, cs, buf, out) ==
    IF i > Len(ws)
    THEN IF buf = <<>> THEN out
         ELSE Append(out, [id |-> Len(out) + 1, start |-> cs,
                           end |-> ws[Len(ws)].end, text |-> Strip(Join(buf))])
    ELSE LET w == ws[i]
             b == Append(buf, w.text)
             d == w.end - cs
             p == EndsWithPunct(Strip(w.text))
         IN  IF (MIN_LEN <= d /\ d <= MAX_LEN /\ p) \/ d > MAX_LEN
             THEN PlanFrom(ws, i + 1, w.end, <<>>,
                           Append(out, [id |-> Len(out) + 1, start |-> cs,
                                        end |-> w.end, text |-> Strip(Join(b))]))
             ELSE PlanFrom(ws, i + 1, cs, b, out)

PlanOf(ws) == IF ws = <<>> THEN <<>> ELSE PlanFrom(ws, 1, ws[1].start, <<>>, <<>>)

\* C20: the chunk boundaries and the manifest are a function of the words
\* and the policy: whatever the waveform and whichever run, the chunks
\* emitted so far are a prefix of the one chunk list the words determine, and
\* a written manifest is that list with the path of each chunk's audio file.
C20_Deterministic ==
    LET plan == PlanOf(words)
    IN  /\ Len(transcripts) <= Len(plan)
        /\ transcripts = SubSeq(plan, 1, Len(transcripts))
        /\ manifest # <<>> =>
              manifest[1] = [transcript |-> plan,
                             audio |-> [n \in 1..Len(plan) |-> WavPath(n)]]

C20_Witness ==
    /\ pc = "done"
    /\ audio_ms < ToMs(words[Len(words)].end)
    /\ Len(manifest[1].transcript) = 2
    /\ manifest[1].transcript[1].text # manifest[1].transcript[2].text

\* C13: at the chunk stage the pipeline decides by the manifest: it calls
\* chunk_audio exactly when chunks_mapping.json does not exist, so a run that
\* follows a crash in the middle of chunking chunks the recording again.
C13_ResumeOnManifest ==
    [][rpc = "chunk" => (rpc' = "chunking" <=> manifest = <<>>)]_vars

----------------------------------------------------------------------------
(* C21 *)

ScenarioA ==
    << [text |-> <<"I">>, start |-> 0, end |-> Second],
       [text |-> <<"a", "m", ".">>, start |-> Second, end |-> (9 * Second) \div 2] >>

\* C21: for the words ("I", 0.0, 1.0), ("am.", 1.0, 4.5) the chunks of a
\* call that reached the end of the input are exactly one chunk with id 1,
\* start 0.0, end 4.5 and text "Iam.", and that is what the manifest holds.
C21_ScenarioA ==
    words = ScenarioA =>
        LET expected == << [id |-> 1, start |-> 0, end |-> (9 * Second) \div 2,
                            text |-> <<"I", "a", "m", ".">>] >>
        IN  /\ Returned => transcripts = expected
            /\ pc = "done" => manifest[1].transcript = expected

C21_Witness ==
    /\ words = ScenarioA
    /\ pc = "done"
    /\ first = <<>>
    /\ trace = << [rule |-> "punct", at |-> 2, n |-> 2] >>

----------------------------------------------------------------------------
(* C24 *)

\* C24: a second call of chunk_audio on the same words with another
\* waveform emits the same chunks as the first: while it runs its chunks
\* are the first chunks of the earlier result, and when it has reached the
\* end of the input its ids, starts, ends and texts, and the manifest it
\* writes, are those of the earlier call.
C24_WaveformIndependent ==
    first # <<>> =>
        /\ Len(transcripts) <= Len(first[1].transcript)
        /\ transcripts = SubSeq(first[1].transcript, 1, Len(transcripts))
        /\ Returned => transcripts = first[1].transcript
        /\ pc = "done" => /\ manifest[1].transcript = first[1].transcript
                          /\ manifest[1].audio = first[1].audio

\* The second call has finished on a waveform of another length than the
\* first, and the last chunk ends beyond the shorter of the two.
C24_Witness ==
    /\ first # <<>>
    /\ pc = "done"
    /\ first[1].audio_ms # audio_ms
    /\ Len(transcripts) >= 2
    /\ ToMs(transcripts[Len(transcripts)].end) > Min(audio_ms, first[1].audio_ms)

----------------------------------------------------------------------------
(* C22, C23 *)

NoPunctuation(ws) == \A i \in 1..Len(ws) : ~HasPunct(ws[i])

\* The words from i to j all end within max_len of cs.
WithinMax(i, j, cs) == \A k \in i..j : words[k].end - cs <= MAX_LEN

\* C22: when no word carries terminal punctuation, every chunk closed inside
\* the loop was closed by the overflow rule at the first word of its run
\* whose end lies more than max_len after the chunk's start, it ends at that
\* word's end and the next chunk starts there; the words of a run that has
\* not been closed, or that the flush closed, all end within max_len.
C22_OverflowAtFirstExcess ==
    (NoPunctuation(words) /\ pc # "raised") =>
        /\ \A n \in 1..Len(transcripts) :
              IF trace[n].rule = "flush"
              THEN WithinMax(RunFirst(n), RunLast(n), transcripts[n].start)
              ELSE /\ trace[n].rule = "overflow"
                   /\ Closer(n).end - transcripts[n].start > MAX_LEN
                   /\ WithinMax(RunFirst(n), RunLast(n) - 1, transcripts[n].start)
                   /\ transcripts[n].end = Closer(n).end
                   /\ n < Len(transcripts) =>
                         transcripts[n + 1].start = Closer(n).end
                   /\ (n = Len(transcripts) /\ pc = "loop") =>
                         chunk_start = Closer(n).end
        /\ pc = "loop" =>
              WithinMax(idx - Len(current_text) + 1, idx, chunk_start)

\* The second of three unpunctuated words took the duration over max_len.
C22_Witness ==
    /\ NoPunctuation(words)
    /\ pc = "done"
    /\ Len(words) = 3
    /\ Len(transcripts) = 2
    /\ trace[1] = [rule |-> "overflow", at |-> 2, n |-> 2]
    /\ transcripts[2].start = words[2].end

C23_Step ==
    (pc = "loop" /\ idx < Len(words)) =>
        LET w == words[idx + 1]
            d == w.end - chunk_start
            punctuated == EndsWithPunct(Strip(w.text))
            close == (MIN_LEN <= d /\ d <= MAX_LEN /\ punctuated) \/ d > MAX_LEN
        IN  IF close
            THEN /\ Len(transcripts') = Len(transcripts) + 1
                 /\ transcripts'[Len(transcripts')].start = chunk_start
                 /\ transcripts'[Len(transcripts')].end = w.end
                 /\ pc' = "loop" => /\ chunk_start' = w.end
                                    /\ current_text' = <<>>
                                    /\ chunk_id' = chunk_id + 1
            ELSE /\ transcripts' = transcripts
                 /\ chunk_start' = chunk_start
                 /\ chunk_id' = chunk_id
                 /\ current_text' = Append(current_text, w.text)
                 /\ pc' = "loop"

\* C23: a step of the loop on word w, with d = w.end - chunk_start, closes a
\* chunk [chunk_start, w.end] if and only if (min_len <= d <= max_len and the
\* trimmed text of w ends with terminal punctuation) or d > max_len;
\* otherwise it appends the word to the buffer and leaves the chunks,
\* chunk_start and the next id as they were.
C23_ExactDecision == [][C23_Step]_vars

\* An unpunctuated word with d = max_len was buffered, and the punctuated
\* word after it closed the chunk with d = max_len.
C23_Witness ==
    /\ pc = "loop"
    /\ Len(transcripts) = 1
    /\ trace[1] = [rule |-> "punct", at |-> 2, n |-> 2]
    /\ ChunkDur(1) = MAX_LEN
    /\ ~HasPunct(words[1])
    /\ words[1].end - transcripts[1].start = MAX_LEN

----------------------------------------------------------------------------
(* C25, C26, C27 *)

C25_Step ==
    /\ Len(transcripts') >= Len(transcripts)
    /\ \A n \in 1..Len(transcripts) : transcripts'[n] = transcripts[n]
    /\ \A n \in DOMAIN audios :
          n \in DOMAIN audios' /\ audios'[n] = audios[n]

\* C25: no step of chunk_audio changes the id, start, end or text of a chunk
\* emitted before it, nor that chunk's entry in the id-to-path mapping.
C25_Immutable == [][C25_Step]_vars

C25_Witness ==
    /\ pc = "done"
    /\ Len(transcripts) = 3
    /\ DOMAIN audios = 1..3
    /\ trace[3].rule = "flush"
    /\ transcripts[1].text # transcripts[3].text

\* Every stored slice starts at the offset where the slice of the chunk
\* before it ends.
Contiguous ==
    \A n \in DOMAIN wav_files :
        (n - 1) \in DOMAIN wav_files =>
            wav_files[n].from = wav_files[n - 1].to

\* All offsets of the chunks lie inside the waveform.
InsideWaveform ==
    \A n \in 1..Len(transcripts) :
        /\ ToMs(transcripts[n].start) <= audio_ms
        /\ ToMs(transcripts[n].end) <= audio_ms

\* sum of len(audio) over the chunk files 1..n, in ms
RECURSIVE TotalLen(_)
TotalLen(n) == IF n = 0 THEN 0 ELSE TotalLen(n - 1) + SliceLen(wav_files[n])

WholeSpanMs == ToMs(words[Len(words)].end) - ToMs(words[1].start)

\* C26 (as stated): for words with start <= end that are ordered by start,
\* the slices are contiguous and, when all offsets lie inside the waveform,
\* the lengths of the chunk audio files sum to
\* ms(last word end) - ms(first word start).
C26_SlicesSumToSpan ==
    WordsValid(words) =>
        /\ Contiguous
        /\ (pc = "done" /\ InsideWaveform) =>
              TotalLen(Len(transcripts)) = WholeSpanMs

\* C26 (amended): the slices are contiguous and, when all offsets lie inside
\* the waveform and no chunk ends before it starts, the lengths of the chunk
\* audio files sum to ms(last word end) - ms(first word start).
C26_SlicesSumToSpanForward ==
    /\ Contiguous
    /\ (/\ pc = "done"
        /\ InsideWaveform
        /\ \A n \in 1..Len(transcripts) :
              transcripts[n].start <= transcripts[n].end) =>
          TotalLen(Len(transcripts)) = WholeSpanMs

\* Three chunks inside the waveform, the first starting between two whole
\* milliseconds.
C26_Witness ==
    /\ pc = "done"
    /\ InsideWaveform
    /\ Len(transcripts) >= 2
    /\ \A n \in 1..Len(transcripts) : transcripts[n].start < transcripts[n].end
    /\ transcripts[1].start % TicksPerMs # 0
    /\ TotalLen(Len(transcripts)) > 0

\* C27: a chunk longer than max_len was closed by the overflow rule at the
\* last word of its run; a chunk closed by the punctuation rule lasts between
\* min_len and max_len; a chunk closed by the flush lasts at most max_len.
C27_Ceiling ==
    \A n \in 1..Len(transcripts) :
        /\ ChunkDur(n) > MAX_LEN =>
              /\ trace[n].rule = "overflow"
              /\ transcripts[n].end = words[RunLast(n)].end
        /\ trace[n].rule = "punct" =>
              (MIN_LEN <= ChunkDur(n) /\ ChunkDur(n) <= MAX_LEN)
        /\ trace[n].rule = "flush" => ChunkDur(n) <= MAX_LEN

C27_Witness ==
    /\ pc = "done"
    /\ Len(transcripts) = 3
    /\ trace[1].rule = "punct" /\ ChunkDur(1) = MIN_LEN
    /\ trace[2].rule = "overflow" /\ ChunkDur(2) > MAX_LEN
    /\ trace[3].rule = "flush" /\ ChunkDur(3) <= MAX_LEN

----------------------------------------------------------------------------
(* C28, C29 *)

StageOutputs == {"original.m4a", "original.wav", "output_wav.json"}

\* A step from the stage at, whose output is out, goes on to next or fails,
\* and it makes out, or fails, only when out does not exist.
StageStep(at, out, next) ==
    rpc = at =>
        /\ rpc' \in {at, next, "failed"}
        /\ files' \in {files, files \cup {out}}
        /\ (files' # files \/ rpc' = "failed") => out \notin files
        /\ UNCHANGED <<dirs_made, wav_files, txt_files, manifest>>

C28_Step ==
    /\ StageStep("download", "original.m4a", "convert")
    /\ StageStep("convert", "original.wav", "transcribe")
    /\ StageStep("transcribe", "output_wav.json", "chunk")
    /\ rpc = "chunk" =>
          /\ rpc' \in {"chunk", "chunking", "finished"}
          /\ rpc' = "chunking" => ~dirs_made
          /\ rpc' = "finished" => dirs_made
          /\ UNCHANGED <<files, dirs_made, wav_files, txt_files, manifest>>
    /\ rpc = "chunking" => rpc' \in {"chunking", "finished", "failed"}
    /\ (rpc # "chunking" /\ files = StageOutputs /\ dirs_made) =>
          /\ rpc' \notin {"chunking", "failed"}
          /\ UNCHANGED <<files, dirs_made, wav_files, txt_files, manifest>>

\* C28: run() goes through download, convert, transcribe, chunk in that
\* order; a stage makes its output, or fails, only when that output does not
\* exist; a run that starts with all four outputs in place executes no
\* stage, changes no file and finishes.
C28_StagesInOrder == [][C28_Step]_vars

\* The second run has skipped three stages after a first run that wrote
\* the manifest.
C28_Witness ==
    /\ runs = 2
    /\ rpc = "chunk"
    /\ files = StageOutputs
    /\ dirs_made
    /\ pc = "done"
    /\ manifest # <<>>
    /\ Len(manifest[1].transcript) >= 2

\* C29: whenever run() has returned normally, chunks_mapping.json exists.
C29_FinishedHasManifest == rpc = "finished" => manifest # <<>>

----------------------------------------------------------------------------
(* C30 *)

Occurrences(seq, u) == Cardinality({k \in 1..Len(seq) : seq[k] = u})

\* C30: the loop attempts the de-duplicated urls one by one in order,
\* whatever raised before: after every iteration successful + failed is the
\* number of urls attempted so far, and when the loop has ended every url
\* of data.csv has been attempted exactly once and successful + failed is
\* the number of distinct urls.
C30_Isolation ==
    /\ row_idx <= Len(df)
    /\ successful + failed = row_idx
    /\ attempted = SubSeq(df, 1, row_idx)
    /\ row_idx = Len(df) =>
          /\ \A i \in 1..Len(rows) : Occurrences(attempted, rows[i]) = 1
          /\ \A k \in 1..Len(attempted) : \E i \in 1..Len(rows) : rows[i] = attempted[k]
          /\ successful + failed = Cardinality({rows[i] : i \in 1..Len(rows)})

\* A file with a repeated url: the loop has ended after a failure and a
\* success.
C30_Witness ==
    /\ Len(rows) > Len(df)
    /\ row_idx = Len(df)
    /\ failed >= 1
    /\ successful >= 1

====
